---- MODULE Spec2Model ----
(***************************************************************************)
(* A model of fred_data.py: one run of the script (parse_args, the         *)
(* credential check, fetch_all, add_metadata_columns, the three writes)    *)
(* and, separately, fetch_all's merge and add_metadata_columns applied to  *)
(* arbitrary inputs.                                                       *)
(*                                                                         *)
(* Representation.  A Python str that the code inspects (a path, a key) is *)
(* a tuple of one-character strings; None is a value no str equals.  A     *)
(* series identifier or description is an opaque TLA+ string.  A column    *)
(* label is a tuple of its levels: <<id>> for a flat Index, <<id, desc>>   *)
(* for the two-level MultiIndex.  A cell value is "NaN" or a number        *)
(* written as a string.  A pandas.Series is [name, index, values], a       *)
(* DataFrame is [columns, index, data] with data[r][c] the cell of row r   *)
(* and column c.                                                           *)
(***************************************************************************)
EXTENDS Integers, Sequences, FiniteSets, TLC

VARIABLES
    argv,          \* the command line: a function from the flags given to their values
    env,           \* the environment: a function from the names set to their values
    pc,            \* the statement of __main__ the run is at
    args,          \* the Namespace parse_args returns
    fred,          \* the Fred client
    series_ids,    \* the list fetch_all iterates over
    i,             \* fetch_all's loop counter (enumerate(..., 1))
    frames,        \* fetch_all's list of fetched series
    df,            \* the DataFrame fetch_all returns (the object add_metadata_columns is given)
    df0,           \* history: df as fetch_all returned it
    df_multi,      \* first result of add_metadata_columns
    df_friendly,   \* second result of add_metadata_columns
    friendly_out,  \* the derived secondary path
    files,         \* the filesystem: a function from the paths written to their content
    log,           \* history: the calls made, in order
    stderr,        \* what was written to the error stream
    status         \* the exit status; Running until the process ended

vars == <<argv, env, pc, args, fred, series_ids, i, frames, df, df0, df_multi,
          df_friendly, friendly_out, files, log, stderr, status>>

----------------------------------------------------------------------------
(* Bounds *)

NumSeries == 2     \* catalog entries the run fetches
MaxDate == 2       \* observation dates are 1..MaxDate
MaxDelay == 1      \* --timeout values are -1..MaxDelay
MaxCols == 2       \* series given to fetch_all when it is applied on its own

----------------------------------------------------------------------------
(* Python values *)

None == <<"None">>
Running == 0 - 1
NaN == "NaN"
EmptyMap == [x \in {} |-> x]
NoFrame == [columns |-> <<>>, index |-> <<>>, data |-> <<>>]

Range(s) == {s[k] : k \in 1..Len(s)}

\* bool(v) of an Optional[str]
Truthy(v) == v # None /\ v # <<>>

\* d.get(k, default) and os.getenv(k)
Get(d, k, default) == IF k \in DOMAIN d THEN d[k] ELSE default

\* str.replace(old, new): every non-overlapping occurrence, left to right
RECURSIVE str_replace(_, _, _)
str_replace(s, old, new) ==
    IF Len(s) < Len(old) THEN s
    ELSE IF SubSeq(s, 1, Len(old)) = old
         THEN new \o str_replace(SubSeq(s, Len(old) + 1, Len(s)), old, new)
         ELSE <<Head(s)>> \o str_replace(Tail(s), old, new)

DotCsv == <<".", "c", "s", "v">>
FriendlyCsv == <<"_", "f", "r", "i", "e", "n", "d", "l", "y", ".", "c", "s", "v">>
DefaultOut == <<"f", "r", "e", "d", "_", "s", "e", "r", "i", "e", "s", "_", "a", "l", "l",
                ".", "c", "s", "v">>

\* friendly_out = args.out.replace(".csv", "_friendly.csv")
FriendlyPath(out) == str_replace(out, DotCsv, FriendlyCsv)

----------------------------------------------------------------------------
(* The catalog *)

CATALOG ==
    << <<"BAMLC0A0CMEY", "ICE BofA US Corporate Index Effective Yield">>,
       <<"BAMLH0A0HYM2EY", "ICE BofA US High Yield Index Effective Yield">>,
       <<"BAMLC0A0CM", "ICE BofA US Corporate Index OAS">>,
       <<"BAMLH0A0HYM2", "ICE BofA US High Yield Index OAS">>,
       <<"VIXCLS", "CBOE Volatility Index (VIX)">>,
       <<"DGS10", "Market Yield on U.S. Treasury (10Y CMT)">>,
       <<"DGS5", "Market Yield on U.S. Treasury (5Y CMT)">>,
       <<"DGS2", "Market Yield on U.S. Treasury (2Y CMT)">>,
       <<"DGS30", "Market Yield on U.S. Treasury (30Y CMT)">>,
       <<"CPIAUCSL", "CPI: All Items">>,
       <<"CPILFESL", "CPI: All Items less Food & Energy">>,
       <<"UNRATE", "Unemployment Rate">>,
       <<"CCSA", "Continued Claims (Insured Unemployment)">> >>

\* The dict SERIES, in insertion order, cut to the first NumSeries entries.
SERIES == SubSeq(CATALOG, 1, NumSeries)

\* list(SERIES.keys())
SERIES_keys == [k \in 1..Len(SERIES) |-> SERIES[k][1]]

\* sid in SERIES
InSERIES(sid) == \E k \in 1..Len(SERIES) : SERIES[k][1] = sid

\* SERIES[sid]
SERIES_at(sid) == SERIES[CHOOSE k \in 1..Len(SERIES) : SERIES[k][1] = sid][2]

\* SERIES.get(sid, sid)
SERIES_get(sid, default) == IF InSERIES(sid) THEN SERIES_at(sid) ELSE default

----------------------------------------------------------------------------
(* pandas *)

\* pd.to_datetime on the provider's index: a raw date <<"raw", d>> becomes the timestamp d
to_datetime(raw_index) == [k \in 1..Len(raw_index) |-> raw_index[k][2]]

\* s[d] for a series and one of its dates, NaN where the series has no such date
ValueAt(s, d) ==
    IF \E k \in 1..Len(s.index) : s.index[k] = d
    THEN s.values[CHOOSE k \in 1..Len(s.index) : s.index[k] = d]
    ELSE NaN

\* the union of the series' indexes, each date where it first appears
RECURSIVE UnionIndex(_)
UnionIndex(fs) ==
    IF fs = <<>> THEN <<>>
    ELSE LET front == UnionIndex(SubSeq(fs, 1, Len(fs) - 1))
             last == fs[Len(fs)].index
         IN front \o SelectSeq(last, LAMBDA d : d \notin Range(front))

\* pd.concat(frames, axis=1, join="outer")
concat_outer(fs) ==
    LET idx == UnionIndex(fs)
    IN [columns |-> [c \in 1..Len(fs) |-> <<fs[c].name>>],
        index |-> idx,
        data |-> [r \in 1..Len(idx) |-> [c \in 1..Len(fs) |-> ValueAt(fs[c], idx[r])]]]

\* sort_index as it would be were the rows left in the order concat gave them
sort_index_unsorted(t) == t

\* DataFrame.sort_index(): rows in ascending order of their label
sort_index(t) ==
    LET sorted == SortSeq(t.index, LAMBDA a, b : a < b)
        RowOf(d) == CHOOSE r \in 1..Len(t.index) : t.index[r] = d
    IN [columns |-> t.columns,
        index |-> sorted,
        data |-> [r \in 1..Len(sorted) |-> t.data[RowOf(sorted[r])]]]

\* fetch_all's last two lines
merge_frames(fs) == sort_index(concat_outer(fs))

\* df.rename(columns=friendly), friendly = {sid: SERIES[sid] for sid in df.columns if sid in SERIES}
rename_friendly(t) ==
    [t EXCEPT !.columns =
        [c \in 1..Len(t.columns) |->
            IF InSERIES(t.columns[c][1]) THEN <<SERIES_at(t.columns[c][1])>>
            ELSE t.columns[c]]]

\* multi_columns as it would be with SERIES.get(sid): no fallback for an unlisted identifier
multi_columns_no_fallback(t) ==
    [c \in 1..Len(t.columns) |->
        <<t.columns[c][1], SERIES_get(t.columns[c][1], "None")>>]

\* pd.MultiIndex.from_tuples([(sid, SERIES.get(sid, sid)) for sid in df.columns])
multi_columns(t) ==
    [c \in 1..Len(t.columns) |->
        <<t.columns[c][1], SERIES_get(t.columns[c][1], t.columns[c][1])>>]

\* DataFrame.to_csv(path, index_label="Date") and DataFrame.to_parquet(path): what lands in the file
CsvOf(t) == [format |-> "csv", index_label |-> "Date", table |-> t]
ParquetOf(t) == [format |-> "parquet", index_label |-> "", table |-> t]
Partial == [format |-> "partial", index_label |-> "", table |-> NoFrame]

\* the filesystem after path holds content
Written(fs, path, content) ==
    [p \in DOMAIN fs \cup {path} |-> IF p = path THEN content ELSE fs[p]]

----------------------------------------------------------------------------
(* The functions of the script *)

\* parse_args as it would be with "args.api_key or os.getenv(...)": an empty flag falls
\* back to the environment
parse_args_or_env(av, ev) ==
    [api_key |-> IF Truthy(Get(av, "api_key", None)) THEN av["api_key"]
                 ELSE Get(ev, "FRED_API_KEY", None),
     out |-> Get(av, "out", DefaultOut),
     parquet |-> Get(av, "parquet", None),
     timeout |-> Get(av, "timeout", 0)]

\* parse_args(): --api-key defaults to os.getenv("FRED_API_KEY"), --out to
\* "fred_series_all.csv", --parquet to None, --timeout to 0.0
parse_args(av, ev) ==
    [api_key |-> Get(av, "api_key", Get(ev, "FRED_API_KEY", None)),
     out |-> Get(av, "out", DefaultOut),
     parquet |-> Get(av, "parquet", None),
     timeout |-> Get(av, "timeout", 0)]

\* the guard as it would be without "i < len(series_ids)": a pause after the last fetch too
SleepDue_after_last(timeout, k, n) == timeout > 0

\* the guard of the pause in fetch_all's loop
SleepDue(timeout, k, n) == timeout > 0 /\ k < n

\* the three statements fetch_all applies to what get_series returned
normalize(raw, sid) == [name |-> sid, index |-> to_datetime(raw.index), values |-> raw.values]

\* add_metadata_columns(df): the columns it leaves on df, and the two frames it returns
add_metadata_df(t) == [t EXCEPT !.columns = multi_columns(t)]
add_metadata_out(t) == add_metadata_df(t)
add_metadata_friendly(t) == rename_friendly(t)

----------------------------------------------------------------------------
(* Inputs *)

\* a series as the provider returns it
RawSeries(dates, values) ==
    [index |-> [k \in 1..Len(dates) |-> <<"raw", dates[k]>>], values |-> values]

\* every series over the dates of D, each date observed as "1.0" or reported missing
SeriesOver(D) ==
    LET dates == SortSeq(CHOOSE q \in [1..Cardinality(D) -> D] : Range(q) = D,
                         LAMBDA a, b : a < b)
    IN {RawSeries(dates, v) : v \in [1..Cardinality(D) -> {"1.0", NaN}]}

AllSeries == UNION {SeriesOver(D) : D \in SUBSET (1..MaxDate)}

\* what the provider answers during a run
RunSeries ==
    {RawSeries(<<>>, <<>>), RawSeries(<<1>>, <<"1.0">>), RawSeries(<<2>>, <<"2.0">>),
     RawSeries(<<1, 2>>, <<NaN, "3.0">>)}

Flag(name, given, value) == IF given THEN name :> value ELSE EmptyMap

KeyValues == {<<>>, <<"k">>}
EnvValues == {<<>>, <<"e">>}
OutValues == {<<"d", ".", "c", "s", "v">>, <<"d", ".", "t", "x", "t">>}
ParquetValues == {<<>>, <<"d", ".", "p", "q">>, <<"d", ".", "t", "x", "t">>}
TimeoutValues == (0 - 1)..MaxDelay

Argvs ==
    {Flag("api_key", g[1], k) @@ Flag("out", g[2], o) @@ Flag("parquet", g[3], p)
        @@ Flag("timeout", g[4], t) :
        g \in [1..4 -> BOOLEAN], k \in KeyValues, o \in OutValues,
        p \in ParquetValues, t \in TimeoutValues}

Envs == {Flag("FRED_API_KEY", g, e) : g \in BOOLEAN, e \in EnvValues}

NoArgs == [api_key |-> None, out |-> <<>>, parquet |-> None, timeout |-> 0]

----------------------------------------------------------------------------
(* One run of the script *)

Init ==
    /\ argv \in Argvs
    /\ env \in Envs
    /\ pc = "parse_args"
    /\ args = NoArgs
    /\ fred = [api_key |-> None]
    /\ series_ids = <<>>
    /\ i = 0
    /\ frames = <<>>
    /\ df = NoFrame
    /\ df0 = NoFrame
    /\ df_multi = NoFrame
    /\ df_friendly = NoFrame
    /\ friendly_out = <<>>
    /\ files = EmptyMap
    /\ log = <<>>
    /\ stderr = <<>>
    /\ status = Running

\* args = parse_args()
ParseArgs ==
    /\ pc = "parse_args"
    /\ args' = parse_args(argv, env)
    /\ pc' = "check_key"
    /\ UNCHANGED <<argv, env, fred, series_ids, i, frames, df, df0, df_multi, df_friendly,
                   friendly_out, files, log, stderr, status>>

\* the check as it would be without sys.exit(1): the error is written and the run goes on
MissingKey_no_exit ==
    /\ pc = "check_key"
    /\ ~Truthy(args.api_key)
    /\ stderr' = Append(stderr, "api_key_not_provided")
    /\ fred' = [api_key |-> args.api_key]
    /\ series_ids' = SERIES_keys
    /\ frames' = <<>>
    /\ i' = 1
    /\ pc' = "fetch"
    /\ UNCHANGED <<argv, env, args, df, df0, df_multi, df_friendly, friendly_out, files,
                   log, status>>

\* if not args.api_key: write the error, sys.exit(1)
MissingKey ==
    /\ pc = "check_key"
    /\ ~Truthy(args.api_key)
    /\ stderr' = Append(stderr, "api_key_not_provided")
    /\ status' = 1
    /\ pc' = "exit"
    /\ UNCHANGED <<argv, env, args, fred, series_ids, i, frames, df, df0, df_multi,
                   df_friendly, friendly_out, files, log>>

\* fred = Fred(api_key=args.api_key); series_ids = list(SERIES.keys()); enter fetch_all
StartFetch ==
    /\ pc = "check_key"
    /\ Truthy(args.api_key)
    /\ fred' = [api_key |-> args.api_key]
    /\ series_ids' = SERIES_keys
    /\ frames' = <<>>
    /\ i' = 1
    /\ pc' = "fetch"
    /\ UNCHANGED <<argv, env, args, df, df0, df_multi, df_friendly, friendly_out, files,
                   log, stderr, status>>

\* one iteration of fetch_all's loop in which get_series returns
FetchOk ==
    /\ pc = "fetch"
    /\ i <= Len(series_ids)
    /\ \E raw \in RunSeries :
          frames' = Append(frames, normalize(raw, series_ids[i]))
    /\ log' = log \o <<<<"get_series", series_ids[i]>>>>
                  \o (IF SleepDue(args.timeout, i, Len(series_ids))
                      THEN <<<<"sleep", args.timeout>>>> ELSE <<>>)
    /\ i' = i + 1
    /\ UNCHANGED <<argv, env, pc, args, fred, series_ids, df, df0, df_multi, df_friendly,
                   friendly_out, files, stderr, status>>

\* a failed fetch as it would be were it caught and the identifier skipped
FetchFail_skip ==
    /\ pc = "fetch"
    /\ i <= Len(series_ids)
    /\ log' = log \o <<<<"get_series", series_ids[i]>>, <<"get_series_raised", series_ids[i]>>>>
    /\ stderr' = Append(stderr, "fetch_failed")
    /\ i' = i + 1
    /\ UNCHANGED <<argv, env, pc, args, fred, series_ids, frames, df, df0, df_multi,
                   df_friendly, friendly_out, files, status>>

\* get_series raises: nothing catches it, the interpreter prints the traceback and exits 1
FetchFail ==
    /\ pc = "fetch"
    /\ i <= Len(series_ids)
    /\ log' = log \o <<<<"get_series", series_ids[i]>>, <<"get_series_raised", series_ids[i]>>>>
    /\ stderr' = Append(stderr, "traceback")
    /\ status' = 1
    /\ pc' = "exit"
    /\ UNCHANGED <<argv, env, args, fred, series_ids, i, frames, df, df0, df_multi,
                   df_friendly, friendly_out, files>>

\* the loop is over: df = pd.concat(frames, axis=1, join="outer").sort_index(); return df
Merge ==
    /\ pc = "fetch"
    /\ i > Len(series_ids)
    /\ df' = merge_frames(frames)
    /\ df0' = merge_frames(frames)
    /\ pc' = "label"
    /\ UNCHANGED <<argv, env, args, fred, series_ids, i, frames, df_multi, df_friendly,
                   friendly_out, files, log, stderr, status>>

\* df_multi, df_friendly = add_metadata_columns(df)
AddMetadata ==
    /\ pc = "label"
    /\ df_friendly' = add_metadata_friendly(df)
    /\ df' = add_metadata_df(df)
    /\ df_multi' = add_metadata_out(df)
    /\ pc' = "write_primary"
    /\ UNCHANGED <<argv, env, args, fred, series_ids, i, frames, df0, friendly_out, files,
                   log, stderr, status>>

\* df_multi.to_csv(args.out, index_label="Date") returns
WritePrimaryOk ==
    /\ pc = "write_primary"
    /\ files' = Written(files, args.out, CsvOf(df_multi))
    /\ log' = Append(log, <<"write_ok", "primary">>)
    /\ pc' = "write_parquet"
    /\ UNCHANGED <<argv, env, args, fred, series_ids, i, frames, df, df0, df_multi,
                   df_friendly, friendly_out, stderr, status>>

\* a failed primary write as it would be were it guarded like the columnar one
WritePrimaryFail_caught ==
    /\ pc = "write_primary"
    /\ \E opened \in BOOLEAN :
          files' = IF opened THEN Written(files, args.out, Partial) ELSE files
    /\ log' = Append(log, <<"write_failed", "primary">>)
    /\ stderr' = Append(stderr, "csv_write_failed")
    /\ pc' = "write_parquet"
    /\ UNCHANGED <<argv, env, args, fred, series_ids, i, frames, df, df0, df_multi,
                   df_friendly, friendly_out, status>>

\* it raises, before the file was opened or with part of it written: uncaught, exit 1
WritePrimaryFail ==
    /\ pc = "write_primary"
    /\ \E opened \in BOOLEAN :
          files' = IF opened THEN Written(files, args.out, Partial) ELSE files
    /\ log' = Append(log, <<"write_failed", "primary">>)
    /\ stderr' = Append(stderr, "traceback")
    /\ status' = 1
    /\ pc' = "exit"
    /\ UNCHANGED <<argv, env, args, fred, series_ids, i, frames, df, df0, df_multi,
                   df_friendly, friendly_out>>

\* if args.parquet: is false
ParquetSkip ==
    /\ pc = "write_parquet"
    /\ ~Truthy(args.parquet)
    /\ pc' = "write_secondary"
    /\ UNCHANGED <<argv, env, args, fred, series_ids, i, frames, df, df0, df_multi,
                   df_friendly, friendly_out, files, log, stderr, status>>

\* df_multi.to_parquet(args.parquet, engine="pyarrow") returns
ParquetOk ==
    /\ pc = "write_parquet"
    /\ Truthy(args.parquet)
    /\ files' = Written(files, args.parquet, ParquetOf(df_multi))
    /\ log' = Append(log, <<"write_ok", "parquet">>)
    /\ pc' = "write_secondary"
    /\ UNCHANGED <<argv, env, args, fred, series_ids, i, frames, df, df0, df_multi,
                   df_friendly, friendly_out, stderr, status>>

\* it raises: except Exception writes the message to stderr and the run goes on
ParquetFail ==
    /\ pc = "write_parquet"
    /\ Truthy(args.parquet)
    /\ \E opened \in BOOLEAN :
          files' = IF opened THEN Written(files, args.parquet, Partial) ELSE files
    /\ log' = Append(log, <<"write_failed", "parquet">>)
    /\ stderr' = Append(stderr, "parquet_write_failed")
    /\ pc' = "write_secondary"
    /\ UNCHANGED <<argv, env, args, fred, series_ids, i, frames, df, df0, df_multi,
                   df_friendly, friendly_out, status>>

\* friendly_out = ...; df_friendly.to_csv(friendly_out, index_label="Date") returns; the
\* script ends
WriteSecondaryOk ==
    /\ pc = "write_secondary"
    /\ friendly_out' = FriendlyPath(args.out)
    /\ files' = Written(files, FriendlyPath(args.out), CsvOf(df_friendly))
    /\ log' = Append(log, <<"write_ok", "secondary">>)
    /\ status' = 0
    /\ pc' = "exit"
    /\ UNCHANGED <<argv, env, args, fred, series_ids, i, frames, df, df0, df_multi,
                   df_friendly, stderr>>

\* the secondary to_csv raises: uncaught, exit 1
WriteSecondaryFail ==
    /\ pc = "write_secondary"
    /\ friendly_out' = FriendlyPath(args.out)
    /\ \E opened \in BOOLEAN :
          files' = IF opened THEN Written(files, FriendlyPath(args.out), Partial) ELSE files
    /\ log' = Append(log, <<"write_failed", "secondary">>)
    /\ stderr' = Append(stderr, "traceback")
    /\ status' = 1
    /\ pc' = "exit"
    /\ UNCHANGED <<argv, env, args, fred, series_ids, i, frames, df, df0, df_multi,
                   df_friendly>>

Next ==
    \/ ParseArgs
    \/ MissingKey
    \/ StartFetch
    \/ FetchOk
    \/ FetchFail
    \/ Merge
    \/ AddMetadata
    \/ WritePrimaryOk
    \/ WritePrimaryFail
    \/ ParquetSkip
    \/ ParquetOk
    \/ ParquetFail
    \/ WriteSecondaryOk
    \/ WriteSecondaryFail

Spec == Init /\ [][Next]_vars

----------------------------------------------------------------------------
(* fetch_all's merge and add_metadata_columns on their own: any list of      *)
(* identifiers, listed in SERIES or not, and any series fetched for them    *)

IdPool == <<"BAMLC0A0CMEY", "UNLISTED", "BAMLH0A0HYM2EY">>

IdLists ==
    {SubSeq(IdPool, a, b) : a \in 1..Len(IdPool), b \in 1..Len(IdPool)}
        \ {<<>>}

InitFn ==
    /\ argv = EmptyMap
    /\ env = EmptyMap
    /\ pc = "fetch"
    /\ args = NoArgs
    /\ fred = [api_key |-> None]
    /\ series_ids \in {l \in IdLists : Len(l) <= MaxCols}
    /\ i = Len(series_ids) + 1
    /\ \E raws \in [1..Len(series_ids) -> AllSeries] :
          frames = [c \in 1..Len(series_ids) |-> normalize(raws[c], series_ids[c])]
    /\ df = NoFrame
    /\ df0 = NoFrame
    /\ df_multi = NoFrame
    /\ df_friendly = NoFrame
    /\ friendly_out = <<>>
    /\ files = EmptyMap
    /\ log = [c \in 1..Len(series_ids) |-> <<"get_series", series_ids[c]>>]
    /\ stderr = <<>>
    /\ status = Running

NextFn ==
    \/ Merge
    \/ AddMetadata

SpecFn == InitFn /\ [][NextFn]_vars

----------------------------------------------------------------------------
(* Properties *)

Tags(l) == [k \in 1..Len(l) |-> l[k][1]]
FlagGiven == "api_key" \in DOMAIN argv
EnvSet == "FRED_API_KEY" \in DOMAIN env
KeyError == "api_key_not_provided" \in Range(stderr)
Writes == SelectSeq(log, LAMBDA e : e[1] \in {"write_ok", "write_failed"})
Calls == SelectSeq(log, LAMBDA e : e[1] = "get_series")
IsPrefix(a, b) == Len(a) <= Len(b) /\ SubSeq(b, 1, Len(a)) = a

\* C1: with no --api-key flag and no FRED_API_KEY in the environment the run gets
\* no further than the credential check: it ends with a non-zero status, no fetch
\* was issued and no file of any kind was written.
C1_NoCredentialAborts ==
    (~FlagGiven /\ ~EnvSet) =>
        /\ pc \in {"parse_args", "check_key", "exit"}
        /\ pc = "exit" => (status = 1 /\ KeyError)
        /\ status \in {Running, 1}
        /\ log = <<>>
        /\ DOMAIN files = {}

C1_Witness ==
    /\ ~FlagGiven /\ ~EnvSet
    /\ pc = "exit" /\ status = 1 /\ stderr = <<"api_key_not_provided">>

\* C2: once the fetch of an identifier has failed the run is over with a non-zero
\* status: the failed call is the last call made (no later identifier is fetched,
\* nothing is written), whatever the number of fetches that succeeded before it.
C2_FetchAllOrNothing ==
    \A k \in 1..Len(log) :
        log[k][1] = "get_series_raised" =>
            /\ k = Len(log)
            /\ pc = "exit" /\ status = 1
            /\ DOMAIN files = {}
            /\ Writes = <<>>
            /\ Len(Calls) = Len(frames) + 1
            /\ \A c \in 1..Len(Calls) : Calls[c][2] = series_ids[c]

C2_Witness ==
    /\ Len(log) > 0 /\ log[Len(log)][1] = "get_series_raised"
    /\ Len(frames) >= 1
    /\ pc = "exit" /\ status = 1

\* C3: the table fetch_all returns has one row per date of the union of the
\* series' dates, in strictly ascending order, one column per identifier in the
\* order of the identifiers, and in each cell the series' observation at exactly
\* that date, or null when the series has none.
C3_MergeIsOuterJoin ==
    pc = "label" =>
        LET dates == UNION {Range(frames[c].index) : c \in 1..Len(frames)}
        IN /\ Len(frames) = Len(series_ids)
           /\ Range(df.index) = dates
           /\ Len(df.index) = Cardinality(dates)
           /\ \A r \in 1..(Len(df.index) - 1) : df.index[r] < df.index[r + 1]
           /\ Len(df.columns) = Len(series_ids)
           /\ \A c \in 1..Len(series_ids) : df.columns[c] = <<series_ids[c]>>
           /\ Len(df.data) = Len(df.index)
           /\ \A r \in 1..Len(df.index) :
                 /\ Len(df.data[r]) = Len(series_ids)
                 /\ \A c \in 1..Len(series_ids) :
                       /\ \A k \in 1..Len(frames[c].index) :
                             frames[c].index[k] = df.index[r]
                                 => df.data[r][c] = frames[c].values[k]
                       /\ df.index[r] \notin Range(frames[c].index)
                             => df.data[r][c] = NaN

C3_Witness ==
    /\ pc = "label"
    /\ Len(frames) = 2
    /\ frames[1].index = <<2>> /\ frames[1].values = <<"1.0">>
    /\ frames[2].index = <<1, 2>> /\ frames[2].values = <<"1.0", NaN>>
    /\ df.index = <<1, 2>>
    /\ df.data = << <<NaN, "1.0">>, <<"1.0", NaN>> >>

\* C4: when --parquet names a path of its own, the columnar write fails and both
\* delimited writes succeed, the failure is reported on stderr, the secondary file
\* is written after it, the primary file still holds the dual-header table and
\* the exit status is zero.
C4_ParquetFailureRecovered ==
    ( /\ pc = "exit"
      /\ Tags(Writes) = <<"write_ok", "write_failed", "write_ok">>
      /\ args.parquet \notin {args.out, friendly_out} )
    =>
        /\ "parquet_write_failed" \in Range(stderr)
        /\ Writes[2][2] = "parquet" /\ Writes[3][2] = "secondary"
        /\ friendly_out \in DOMAIN files /\ files[friendly_out] = CsvOf(df_friendly)
        /\ args.out \in DOMAIN files /\ files[args.out] = CsvOf(df_multi)
        /\ status = 0

\* C5: the secondary path the run writes to differs from the primary path.
C5_SecondaryPathDistinct ==
    (\E k \in 1..Len(Writes) : Writes[k][2] = "secondary") => friendly_out # args.out

\* C6: after add_metadata_columns has returned, the table fetch_all produced
\* still has the headers and the cells it was returned with.
C6_LabelingLeavesTableAlone ==
    pc = "write_primary" => (df.columns = df0.columns /\ df.data = df0.data)

\* C7: both views add_metadata_columns returns have the rows, the column order
\* and the cells of the merged table; column k of the first is labeled
\* (identifier, description) and column k of the second is labeled description,
\* the description being the catalog's for a listed identifier and the
\* identifier itself otherwise.
C7_ViewsDifferOnlyInHeaders ==
    pc = "write_primary" =>
        LET Desc(sid) ==
                IF \E j \in 1..NumSeries : CATALOG[j][1] = sid
                THEN CATALOG[CHOOSE j \in 1..NumSeries : CATALOG[j][1] = sid][2]
                ELSE sid
        IN /\ df_multi.index = df0.index /\ df_multi.data = df0.data
           /\ df_friendly.index = df0.index /\ df_friendly.data = df0.data
           /\ Len(df_multi.columns) = Len(df0.columns)
           /\ Len(df_friendly.columns) = Len(df0.columns)
           /\ \A k \in 1..Len(df0.columns) :
                 /\ df_multi.columns[k] = <<df0.columns[k][1], Desc(df0.columns[k][1])>>
                 /\ df_friendly.columns[k] = <<Desc(df0.columns[k][1])>>

C7_Witness ==
    /\ pc = "write_primary"
    /\ series_ids = <<"BAMLC0A0CMEY", "UNLISTED">>
    /\ df0.index = <<1, 2>>
    /\ df_multi.columns = << <<"BAMLC0A0CMEY", "ICE BofA US Corporate Index Effective Yield">>,
                             <<"UNLISTED", "UNLISTED">> >>
    /\ df_friendly.columns = << <<"ICE BofA US Corporate Index Effective Yield">>,
                                <<"UNLISTED">> >>

\* the value the credential resolves to: the flag's when the flag is given, the
\* environment's otherwise, None when neither is there
Resolved ==
    IF FlagGiven THEN argv["api_key"]
    ELSE IF EnvSet THEN env["FRED_API_KEY"] ELSE None

\* C8 as claimed: the credential is the flag's value when the flag is given and
\* the environment's otherwise, and the missing-credential error happens only
\* when neither a flag value nor an environment value is there.
C8_ErrorOnlyWhenNeitherPresent ==
    pc # "parse_args" =>
        /\ args.api_key = Resolved
        /\ KeyError => ( /\ ~(FlagGiven /\ argv["api_key"] # <<>>)
                         /\ ~(EnvSet /\ env["FRED_API_KEY"] # <<>>) )

\* C8 amended: the credential is the flag's value when the flag is given and the
\* environment's otherwise; the missing-credential error happens exactly when
\* that value is absent or empty, and otherwise the client is built with it.
C8_ErrorIffResolvedEmpty ==
    /\ pc # "parse_args" => args.api_key = Resolved
    /\ KeyError => (Resolved \in {None, <<>>} /\ pc = "exit" /\ status = 1)
    /\ pc \notin {"parse_args", "check_key"} =>
          IF Resolved \in {None, <<>>}
          THEN KeyError /\ log = <<>>
          ELSE ~KeyError /\ fred.api_key = Resolved

C8_Witness ==
    /\ FlagGiven /\ argv["api_key"] = <<>>
    /\ EnvSet /\ env["FRED_API_KEY"] = <<"e">>
    /\ KeyError /\ pc = "exit" /\ status = 1

\* C9: when every fetch has succeeded, the calls made are one get_series per
\* catalog identifier in catalog order, with one sleep of the configured delay
\* between consecutive fetches when the delay is positive (none after the last)
\* and no sleep at all otherwise; while the loop runs, the calls made so far
\* are a prefix of that sequence.
C9_FetchOrderAndSleeps ==
    LET n == Len(SERIES_keys)
        t == args.timeout
        expected ==
            IF t > 0
            THEN [k \in 1..(2 * n - 1) |->
                     IF k % 2 = 1 THEN <<"get_series", SERIES_keys[(k + 1) \div 2]>>
                     ELSE <<"sleep", t>>]
            ELSE [k \in 1..n |-> <<"get_series", SERIES_keys[k]>>]
    IN /\ pc = "label" => log = expected
       /\ pc = "fetch" => IsPrefix(log, expected)

C9_Witness ==
    /\ pc = "label"
    /\ args.timeout > 0
    /\ Len(log) = 2 * Len(SERIES_keys) - 1
    /\ log[2] = <<"sleep", args.timeout>>
    /\ log[Len(log)][1] = "get_series"

\* C10: a write happens only after every identifier was fetched; the writes come
\* in the order primary, columnar (exactly when configured), secondary; a
\* failed primary write ends the run with a non-zero status and no further write
\* attempted; a failed secondary write ends it with a non-zero status, the
\* primary write having completed before.
C10_WriteOrder ==
    LET order == IF Truthy(args.parquet) THEN <<"primary", "parquet", "secondary">>
                 ELSE <<"primary", "secondary">>
        targets == [k \in 1..Len(Writes) |-> Writes[k][2]]
    IN /\ Writes # <<>> =>
             /\ Len(frames) = Len(series_ids) /\ Len(Calls) = Len(series_ids)
             /\ \A k \in 1..Len(log) : log[k][1] # "get_series_raised"
             /\ \A k \in 1..Len(log) :
                   log[k][1] \in {"write_ok", "write_failed"}
                       => \A j \in (k + 1)..Len(log) : log[j][1] \in {"write_ok", "write_failed"}
       /\ IsPrefix(targets, order)
       /\ pc = "exit" /\ status = 0 => targets = order
       /\ \A k \in 1..Len(Writes) :
             /\ (Writes[k] = <<"write_failed", "primary">>)
                   => (k = Len(Writes) /\ pc = "exit" /\ status = 1)
             /\ (Writes[k] = <<"write_failed", "secondary">>)
                   => ( /\ k = Len(Writes) /\ pc = "exit" /\ status = 1
                        /\ Writes[1] = <<"write_ok", "primary">>
                        /\ args.out \in DOMAIN files )

C10_Witness ==
    /\ pc = "exit" /\ status = 1
    /\ Truthy(args.parquet)
    /\ Len(Writes) = 3
    /\ Writes[3] = <<"write_failed", "secondary">>
    /\ Writes[1] = <<"write_ok", "primary">>

====
